---------------------------- MODULE Spec2Model ----------------------------
(***************************************************************************)
(* Variational EM for the truncated HDP topic model (model/hdp.py).        *)
(*                                                                         *)
(* Real-valued quantities are exact rationals <<n, d>> with d > 0, kept in *)
(* lowest terms.  Values the code obtains from special functions (psi,     *)
(* gammaln, exp, log) are inputs of the actions, drawn from small sets:    *)
(* the gradient of update_V, the surrogate values f of getstepSTICK, the   *)
(* unnormalised responsibilities exp(E_ln_eta + lnZ) of update_C and the   *)
(* lower bound lb of fit.  Everything the code does with those values      *)
(* (filtering, minima, the grid, argsort, halving, normalisation,          *)
(* accumulation, the stopping tests) is computed as the code computes it.  *)
(***************************************************************************)
EXTENDS Integers, Sequences, FiniteSets, TLC

VARIABLES
    \* fit, one copy per value of is_compute_lb (the run's flag)
    max_iter, iteration, lbs, pc, calls,
    \* update_V and getstepSTICK
    V, p, sweep, ls,
    \* update_Z
    A, B, phi_doc, Nm, beta, zs,
    \* update_C
    gamma, corpus, cs

vars == <<max_iter, iteration, lbs, pc, calls, V, p, sweep, ls,
          A, B, phi_doc, Nm, beta, zs, gamma, corpus, cs>>

fitVars == <<max_iter, iteration, lbs, pc, calls>>
vVars   == <<V, sweep, ls>>
zVars   == <<A, B, beta, zs>>
cVars   == <<gamma, corpus, cs, Nm>>

---------------------------------------------------------------------------
(* Exact rational arithmetic for the float arithmetic of numpy.            *)

RECURSIVE GCD(_, _)
GCD(a, b) == IF b = 0 THEN a ELSE GCD(b, a % b)

Abs(x) == IF x < 0 THEN -x ELSE x

Norm(n, d) ==
    LET g == GCD(Abs(n), Abs(d))
        s == IF d < 0 THEN -1 ELSE 1
    IN  <<s * (n \div g), s * (d \div g)>>

Rat(n, d) == Norm(n, d)
R0 == <<0, 1>>
R1 == <<1, 1>>

LCM(a, b) == (a \div GCD(a, b)) * b

RNeg(x) == <<-x[1], x[2]>>

RAdd(x, y) ==
    LET l == LCM(x[2], y[2])
    IN  Norm(x[1] * (l \div x[2]) + y[1] * (l \div y[2]), l)

RSub(x, y) == RAdd(x, RNeg(y))

RMul(x, y) ==
    LET a == Norm(x[1], y[2])
        b == Norm(y[1], x[2])
    IN  <<a[1] * b[1], a[2] * b[2]>>

RDiv(x, y) == RMul(x, Norm(y[2], y[1]))

RLt(x, y) ==
    LET l == LCM(x[2], y[2])
    IN  x[1] * (l \div x[2]) < y[1] * (l \div y[2])

RLe(x, y) == ~RLt(y, x)

RPos(x) == x[1] > 0

RECURSIVE RMinOf(_)
RMinOf(S) ==
    LET x == CHOOSE y \in S : TRUE
    IN  IF S = {x} THEN x
        ELSE LET m == RMinOf(S \ {x}) IN IF RLt(x, m) THEN x ELSE m

RECURSIVE RSum(_, _)
RSum(f, S) ==
    IF S = {} THEN R0
    ELSE LET x == CHOOSE y \in S : TRUE IN RAdd(f[x], RSum(f, S \ {x}))

InUnit(x) == RPos(x) /\ RLt(x, R1)

---------------------------------------------------------------------------
(* Model configuration (BaseModel) and stick breaking.                     *)

n_topic == 3

\* the two values of is_compute_lb
Runs == BOOLEAN
Topics  == 0 .. (n_topic - 1)
Last    == n_topic - 1

\* stickLeft[k] = prod_{j<k} (1 - V[j])
RECURSIVE getStickLeftAt(_, _)
getStickLeftAt(v, k) ==
    IF k = 0 THEN R1
    ELSE RMul(getStickLeftAt(v, k - 1), RSub(R1, v[k - 1]))

getStickLeft(v) == [k \in Topics |-> getStickLeftAt(v, k)]

\* p[k] = V[k] * stickLeft[k]
getP(v) == [k \in Topics |-> RMul(v[k], getStickLeftAt(v, k))]


---------------------------------------------------------------------------
(* getstepSTICK: the step length of the coordinate ascent on V.            *)

\* the coordinates of curr[:len(curr)-1] whose gradient is not zero
Sel(grad) == {k \in 0 .. (n_topic - 2) : grad[k] # R0}

step_zero(curr, grad) == [k \in Sel(grad) |-> RDiv(RNeg(curr[k]), grad[k])]

step_one(curr, grad) == [k \in Sel(grad) |-> RDiv(RSub(R1, curr[k]), grad[k])]

\* s[s > 0]
Positive(s) == {s[k] : k \in {j \in DOMAIN s : RPos(s[j])}}

min_zero(curr, grad) ==
    IF Positive(step_zero(curr, grad)) # {}
    THEN RMinOf(Positive(step_zero(curr, grad)))
    ELSE R1

min_one(curr, grad) ==
    IF Positive(step_one(curr, grad)) # {}
    THEN RMinOf(Positive(step_one(curr, grad)))
    ELSE R1

\* variant: only the distance to 0 bounds the step
max_step_zero_only(curr, grad) == min_zero(curr, grad)

max_step(curr, grad) == RMinOf({min_zero(curr, grad), min_one(curr, grad)})

\* [0., .01, .125, .25, .375, .5, .625, .75, .875], indexed from 0 by Grid
GridFrac == << Rat(0, 1), Rat(1, 100), Rat(1, 8), Rat(1, 4), Rat(3, 8),
               Rat(1, 2), Rat(5, 8), Rat(3, 4), Rat(7, 8) >>

Grid(ite) == GridFrac[ite + 1]

step_check_vec(ms) ==
    IF RPos(ms)
    THEN [ite \in 0 .. (Len(GridFrac) - 1) |-> RMul(Grid(ite), ms)]
    ELSE [ite \in {} |-> R0]

\* vec_check = curr + step * grad
vec_check(curr, step, grad) == [k \in Topics |-> RAdd(curr[k], RMul(step, grad[k]))]

\* f.argsort()[-1]: an index of a largest value; which one among equal
\* values is left to the sort
ArgsortLast(f) == {b \in DOMAIN f : \A j \in DOMAIN f : f[j] <= f[b]}

rho == Rat(1, 2)

\* the while loop: fb[t] is the surrogate at the t-th halved step
RECURSIVE Backtrack(_, _, _, _)
Backtrack(step, fold, fb, t) ==
    LET s2   == RMul(rho, step)
        fnew == fb[t]
    IN  IF fnew > fold
        THEN Backtrack(s2, fnew, fb, t + 1)
        ELSE [step |-> s2, fold |-> fold, evals |-> t]

\* Lines 185-221, from max_step on: the returned step and the locals it was
\* computed from.  f, fb are the surrogate values at the steps the search
\* evaluates and b is the outcome of the argsort.  With an empty grid b is
\* never assigned and the test b == 1 raises.
\* variant: the last halving is not undone
SearchFromNoUndo(ms, f, fb, b) ==
    LET scv == step_check_vec(ms)
    IN  IF DOMAIN scv = {}
        THEN [max_step |-> ms, f |-> f, b |-> -1, step |-> R0, fold |-> 0,
              evals |-> 0, err |-> "UnboundLocalError"]
        ELSE IF b = 1
        THEN LET r == Backtrack(scv[b], f[b], fb, 1)
             IN  [max_step |-> ms, f |-> f, b |-> b, step |-> r.step,
                  fold |-> r.fold, evals |-> r.evals, err |-> "none"]
        ELSE [max_step |-> ms, f |-> f, b |-> b, step |-> scv[b], fold |-> f[b],
              evals |-> 0, err |-> "none"]

SearchFrom(ms, f, fb, b) ==
    LET scv == step_check_vec(ms)
    IN  IF DOMAIN scv = {}
        THEN [max_step |-> ms, f |-> f, b |-> -1, step |-> R0, fold |-> 0,
              evals |-> 0, err |-> "UnboundLocalError"]
        ELSE IF b = 1
        THEN LET r == Backtrack(scv[b], f[b], fb, 1)
             IN  [max_step |-> ms, f |-> f, b |-> b, step |-> RDiv(r.step, rho),
                  fold |-> r.fold, evals |-> r.evals, err |-> "none"]
        ELSE [max_step |-> ms, f |-> f, b |-> b, step |-> scv[b], fold |-> f[b],
              evals |-> 0, err |-> "none"]

getstepSTICK(curr, grad, f, fb, b) == SearchFrom(max_step(curr, grad), f, fb, b)

---------------------------------------------------------------------------
(* Inputs of the line search: surrogate values and gradients.              *)

MaxBack == 1

Flat == [ite \in 0 .. (Len(GridFrac) - 1) |-> 0]

PeakSets == { {0}, {1}, {2}, {8}, {1, 8}, {0, 1} }

\* surrogate values on the grid: flat, one peak, or two equal peaks
FGrids ==
    {Flat} \cup
    {[ite \in 0 .. (Len(GridFrac) - 1) |-> IF ite \in S THEN 1 ELSE 0] : S \in PeakSets}

\* Surrogate values at the halved steps: j halvings improve strictly, the
\* next one repeats the last value (e = 1) or falls to f[0]; the last entry
\* is at a step so small that curr + step * grad is curr again, where the
\* surrogate is f[0].
BackOracles(f) ==
    { [t \in 1 .. (MaxBack + 1) |->
          IF t <= j THEN f[1] + t
          ELSE IF t = j + 1 /\ e = 1 /\ t <= MaxBack THEN f[1] + j
          ELSE f[0]] :
        j \in 0 .. MaxBack, e \in {0, 1} }

GradVals == {Rat(-1, 4), R0, Rat(1, 2)}

\* the gradient before line 153: any value in each coordinate
RawGrads == {g \in [Topics -> GradVals] : g[Last] # R0}

\* a direction that is zero everywhere gives the same vec_check, hence the
\* same surrogate value, at every step
Surrogates(grad) ==
    IF \A k \in Topics : grad[k] = R0
    THEN {[f |-> Flat, fb |-> [t \in 1 .. (MaxBack + 1) |-> 0], b |-> b] :
            b \in 0 .. (Len(GridFrac) - 1)}
    ELSE UNION {
           UNION { {[f |-> f, fb |-> fb, b |-> b] :
                      fb \in IF b = 1 THEN BackOracles(f)
                                      ELSE {[t \in 1 .. (MaxBack + 1) |-> f[0]]}} :
                   b \in ArgsortLast(f)} :
           f \in FGrids}

---------------------------------------------------------------------------
(* update_V: c_a_max_step sweeps of coordinate ascent on V.                *)

c_a_max_step == 1

\* the sweeps are followed from the V whose denominators are at most DenCap
DenCap == 16

\* lines 144-153: the gradient; g is its value before the last coordinate
\* is set to zero
\* variant: the last coordinate keeps its gradient
vVecKeepLast(g) == g

vVec(g) == [k \in Topics |-> IF k = n_topic - 1 THEN R0 ELSE g[k]]

NoCall == [max_step |-> R0, f |-> <<>>, b |-> -1, step |-> R0, fold |-> 0,
           evals |-> 0, err |-> "none", fb |-> <<>>, curr |-> <<>>, grad |-> <<>>]

VInits ==
    { [k \in Topics |-> IF k = Last THEN R1 ELSE IF k = 0 THEN a ELSE c] :
        a \in {Rat(1, 4), Rat(3, 4)}, c \in {Rat(1, 2), Rat(1, 4)} }

\* a model as constructed, with V inside (0,1) and V[K-1] = 1; nothing else runs
InitV ==
    /\ V \in VInits
    /\ p = getP(V)
    /\ sweep = 0
    /\ ls = NoCall
    /\ phi_doc = <<>> /\ Nm = <<>>
    /\ max_iter = 0
    /\ iteration = [r \in Runs |-> 0]
    /\ lbs = [r \in Runs |-> <<>>]
    /\ pc = [r \in Runs |-> "done"]
    /\ calls = [r \in Runs |-> 0]
    /\ A = <<>> /\ B = <<>> /\ beta = R0 /\ zs = <<>>
    /\ gamma = <<>> /\ corpus = <<>> /\ cs = <<>>

UpdateVSweep ==
    /\ sweep < c_a_max_step
    /\ ls.err = "none"
    /\ \A k \in Topics : V[k][2] <= DenCap
    /\ \E g \in RawGrads :
         LET vv == vVec(g)
             ms == max_step(V, vv)
         IN  \E o \in Surrogates(vv) :
               LET r == SearchFrom(ms, o.f, o.fb, o.b)
               IN  /\ ls' = r @@ [fb |-> o.fb, curr |-> V, grad |-> vv]
                   /\ IF r.err = "none"
                      THEN /\ V' = vec_check(V, r.step, vv)
                           /\ p' = getP(V')
                           /\ sweep' = sweep + 1
                      ELSE UNCHANGED <<V, p, sweep>>

---------------------------------------------------------------------------
(* update_Z: the Gamma posterior (A, B) of the document intensities.       *)

M    == 2
Docs == 0 .. (M - 1)

MaxZCalls == 2

\* xi = np.sum(corpus.A / corpus.B, 1)
xiOf(a, b) == [m \in Docs |-> RSum([k \in Topics |-> RDiv(a[m][k], b[m][k])], Topics)]

\* corpus.A = bp + corpus.phi_doc
newA(bp, phi) == [m \in Docs |-> [k \in Topics |-> RAdd(bp[k], phi[m][k])]]

\* corpus.B = 1 + (corpus.Nm / xi)[:, np.newaxis]
newB(nm, xi) == [m \in Docs |-> [k \in Topics |-> RAdd(R1, RDiv(nm[m], xi[m]))]]

\* lines 113-117: the new (A, B); xi is taken from the old ones
\* variant: xi is taken after A is overwritten
update_Z_AB_late(a, b, phi, nm, bt, pp) ==
    LET bp == [k \in Topics |-> RMul(bt, pp[k])]
        a2 == newA(bp, phi)
        xi == xiOf(a2, b)
    IN  [A |-> a2, B |-> newB(nm, xi), xi |-> xi]

update_Z_AB(a, b, phi, nm, bt, pp) ==
    LET bp == [k \in Topics |-> RMul(bt, pp[k])]
        xi == xiOf(a, b)
    IN  [A |-> newA(bp, phi), B |-> newB(nm, xi), xi |-> xi]

PDists ==
    { <<Rat(1, 3), Rat(1, 3), Rat(1, 3)>>, <<Rat(1, 4), Rat(3, 8), Rat(3, 8)>>,
      <<Rat(1, 2), Rat(1, 2), R0>>, <<R1, R0, R0>> }

AsTopics(t) == [k \in Topics |-> IF k + 1 <= Len(t) THEN t[k + 1] ELSE R0]

PhiRows == { <<R0, R0, R0>>, <<R1, Rat(2, 1), R0>>, <<Rat(1, 2), Rat(1, 2), Rat(2, 1)>> }

ABInits == { [m \in Docs |-> [k \in Topics |-> x]] : x \in {R1, Rat(3, 2)} }

InitZ ==
    /\ p \in {AsTopics(t) : t \in PDists}
    /\ phi_doc \in [Docs -> {AsTopics(t) : t \in PhiRows}]
    /\ Nm \in [Docs -> {R0, Rat(3, 1)}]
    /\ beta \in {Rat(1, 2), Rat(5, 1)}
    /\ A \in ABInits
    /\ B \in ABInits
    /\ zs = [calls |-> 0, xi |-> <<>>, A_old |-> <<>>, B_old |-> <<>>]
    /\ max_iter = 0
    /\ iteration = [r \in Runs |-> 0]
    /\ lbs = [r \in Runs |-> <<>>]
    /\ pc = [r \in Runs |-> "done"]
    /\ calls = [r \in Runs |-> 0]
    /\ V = <<>> /\ sweep = 0 /\ ls = NoCall
    /\ gamma = <<>> /\ corpus = <<>> /\ cs = <<>>

UpdateZ ==
    /\ zs.calls < MaxZCalls
    /\ LET r == update_Z_AB(A, B, phi_doc, Nm, beta, p)
       IN  /\ A' = r.A
           /\ B' = r.B
           /\ zs' = [calls |-> zs.calls + 1, xi |-> r.xi, A_old |-> A, B_old |-> B]
    /\ UNCHANGED <<p, phi_doc, Nm, beta>>

---------------------------------------------------------------------------
(* update_C: word responsibilities C, topic-word parameters gamma and the  *)
(* per-document topic usage phi_doc.                                       *)

n_voca == 3
Voca   == 0 .. (n_voca - 1)

dir_prior == Rat(1, 2)

MaxPasses == 2

\* word_ids[m], word_cnt[m]: parallel sequences, the ids of a document distinct
Corpora ==
    { [word_ids |-> << <<0, 1>>, <<1, 2>> >>, word_cnt |-> << <<2, 1>>, <<1, 3>> >>],
      [word_ids |-> << <<0>>, <<0, 2>> >>,    word_cnt |-> << <<1>>, <<2, 2>> >>] }

ids_of(c, m) == c.word_ids[m + 1]
cnt_of(c, m) == c.word_cnt[m + 1]

RECURSIVE SeqSum(_)
SeqSum(q) == IF q = <<>> THEN 0 ELSE Head(q) + SeqSum(Tail(q))

\* corpus.Nm[m] = sum(word_cnt[m])
NmOf(c) == [m \in Docs |-> Rat(SeqSum(cnt_of(c, m)), 1)]

\* exp(E_ln_eta + lnZ[m, :]) of one word: positive weights
WRows == { <<1, 2, 1>>, <<3, 1, 4>> }

\* C = C / np.sum(C, 1)[:, np.newaxis]
Normalise(w) ==
    [k \in Topics |-> Rat(w[k + 1], SeqSum(w))]

\* cnt[:, np.newaxis] * C
Weighted(cnt, C) == [j \in DOMAIN C |-> [k \in Topics |-> RMul(Rat(cnt[j], 1), C[j][k])]]

\* gamma[ids, :] += X: each row named in ids gets its old value plus the X
\* row of the last position naming it
FancyAdd(g, ids, X) ==
    [v \in Voca |->
        IF \E j \in DOMAIN ids : ids[j] = v
        THEN LET j == CHOOSE i \in DOMAIN ids :
                        ids[i] = v /\ \A i2 \in DOMAIN ids : ids[i2] = v => i2 <= i
             IN  [k \in Topics |-> RAdd(g[v][k], X[j][k])]
        ELSE g[v]]

\* np.sum(cnt[:, np.newaxis] * C, 0)
ColSum(X) == [k \in Topics |-> RSum([j \in DOMAIN X |-> X[j][k]], DOMAIN X)]

\* line 82: the prior floor gamma restarts from in a pass that is not held out
\* variant: gamma is not reset at the start of a pass
gammaStartNoReset(g, is_heldout) == g

gammaStart(g, is_heldout) ==
    IF ~is_heldout THEN [v \in Voca |-> [k \in Topics |-> dir_prior]] ELSE g

\* the loop over the documents, lines 84-95; W[m] are the weights of the
\* words of document m
RECURSIVE DocLoop(_, _, _, _, _, _)
DocLoop(m, g, phi, c, W, is_heldout) ==
    IF m = M THEN [gamma |-> g, phi_doc |-> phi]
    ELSE LET C == [j \in DOMAIN ids_of(c, m) |-> Normalise(W[m][j])]
             X == Weighted(cnt_of(c, m), C)
             g2 == IF ~is_heldout THEN FancyAdd(g, ids_of(c, m), X) ELSE g
             phi2 == [phi EXCEPT ![m] = ColSum(X)]
         IN  DocLoop(m + 1, g2, phi2, c, W, is_heldout)

update_C_state(g, c, W, is_heldout) ==
    DocLoop(0, gammaStart(g, is_heldout),
            [m \in Docs |-> [k \in Topics |-> R0]], c, W, is_heldout)

WeightsOf(c) ==
    { W \in [Docs -> [1 .. 2 -> WRows]] :
        \A m \in Docs : \A j \in 1 .. 2 : j > Len(ids_of(c, m)) => W[m][j] = <<1, 2, 1>> }

InitC ==
    /\ corpus \in Corpora
    /\ Nm = NmOf(corpus)
    /\ gamma \in { [v \in Voca |-> [k \in Topics |-> x]] : x \in {R1, Rat(2, 1)} }
    /\ phi_doc = [m \in Docs |-> [k \in Topics |-> R0]]
    /\ cs = [passes |-> 0, updates |-> 0, is_heldout |-> FALSE, W |-> <<>>]
    /\ p = <<>>
    /\ max_iter = 0
    /\ iteration = [r \in Runs |-> 0]
    /\ lbs = [r \in Runs |-> <<>>]
    /\ pc = [r \in Runs |-> "done"]
    /\ calls = [r \in Runs |-> 0]
    /\ V = <<>> /\ sweep = 0 /\ ls = NoCall
    /\ A = <<>> /\ B = <<>> /\ beta = R0 /\ zs = <<>>

UpdateC(is_heldout) ==
    /\ cs.passes < MaxPasses
    /\ \E W \in WeightsOf(corpus) :
         LET r == update_C_state(gamma, corpus, W, is_heldout)
         IN  /\ gamma' = r.gamma
             /\ phi_doc' = r.phi_doc
             /\ cs' = [passes |-> cs.passes + 1,
                       updates |-> cs.updates + (IF is_heldout THEN 0 ELSE 1),
                       is_heldout |-> is_heldout, W |-> W]
    /\ UNCHANGED <<corpus, Nm>>

---------------------------------------------------------------------------
(* fit: the EM loop.  Two runs are kept side by side, one for each value   *)
(* of is_compute_lb, with the same max_iter.                               *)

MaxIter == 8

\* the lower bound of an iteration: a float sum when is_compute_lb, and the
\* int 0 that lb starts from when nothing is added to it
LbVals(is_compute_lb) ==
    IF is_compute_lb THEN {-200001, -200000, 0, 1} ELSE {0}

RelTol == 100000

\* (abs(a - b) / abs(b)) < 1e-5 for floats: with b = 0 the quotient is inf
\* or nan and the test is false
RelConverged(a, b) ==
    b # 0 /\ Abs(a - b) <= (Abs(b) - 1) \div RelTol

\* lines 50-56 after the three updates of iteration it
\* variant: the test lbs[-1] < lbs[-2] is missing
AfterUpdatesNoDecrease(it, l, lb, is_compute_lb) ==
    LET l2 == IF it > 3 THEN Append(l, lb) ELSE l
        n  == Len(l2)
    IN  IF it > 5
        THEN IF ~is_compute_lb /\ l2[n - 1] = 0
             THEN [lbs |-> l2, out |-> "ZeroDivisionError"]
             ELSE IF RelConverged(l2[n], l2[n - 1])
             THEN [lbs |-> l2, out |-> "break"]
             ELSE [lbs |-> l2, out |-> "next"]
        ELSE [lbs |-> l2, out |-> "next"]

AfterUpdates(it, l, lb, is_compute_lb) ==
    LET l2 == IF it > 3 THEN Append(l, lb) ELSE l
        n  == Len(l2)
    IN  IF it > 5
        THEN IF ~is_compute_lb /\ l2[n - 1] = 0
             THEN [lbs |-> l2, out |-> "ZeroDivisionError"]
             ELSE IF RelConverged(l2[n], l2[n - 1])
             THEN [lbs |-> l2, out |-> "break"]
             ELSE IF l2[n] < l2[n - 1]
             THEN [lbs |-> l2, out |-> "break"]
             ELSE [lbs |-> l2, out |-> "next"]
        ELSE [lbs |-> l2, out |-> "next"]

InitFit ==
    /\ max_iter \in 0 .. MaxIter
    /\ iteration = [r \in Runs |-> 0]
    /\ lbs = [r \in Runs |-> <<>>]
    /\ pc = [r \in Runs |-> IF max_iter > 0 THEN "loop" ELSE "done"]
    /\ calls = [r \in Runs |-> 0]
    /\ p = <<>> /\ phi_doc = <<>> /\ Nm = <<>>
    /\ V = <<>> /\ sweep = 0 /\ ls = NoCall
    /\ A = <<>> /\ B = <<>> /\ beta = R0 /\ zs = <<>>
    /\ gamma = <<>> /\ corpus = <<>> /\ cs = <<>>

\* one pass of the loop body of the run whose is_compute_lb is r
FitIteration(r) ==
    /\ pc[r] = "loop"
    /\ \E lb \in LbVals(r) :
         LET a == AfterUpdates(iteration[r], lbs[r], lb, r)
         IN  /\ calls' = [calls EXCEPT ![r] = @ + 1]
             /\ lbs' = [lbs EXCEPT ![r] = a.lbs]
             /\ iteration' = [iteration EXCEPT ![r] = IF a.out = "next" THEN @ + 1 ELSE @]
             /\ pc' = [pc EXCEPT ![r] =
                         IF a.out = "ZeroDivisionError" THEN "error"
                         ELSE IF a.out = "break" THEN "done"
                         ELSE IF iteration[r] + 1 < max_iter THEN "loop" ELSE "done"]
    /\ UNCHANGED max_iter

---------------------------------------------------------------------------
(* Specifications: one per operation under study; the state of the others  *)
(* is left empty.                                                          *)

NextV == UpdateVSweep /\ UNCHANGED <<fitVars, zVars, cVars, phi_doc>>
SpecV == InitV /\ [][NextV]_vars

NextZ == UpdateZ /\ UNCHANGED <<fitVars, vVars, cVars>>
SpecZ == InitZ /\ [][NextZ]_vars

NextC == (\E h \in BOOLEAN : UpdateC(h)) /\ UNCHANGED <<fitVars, vVars, zVars, p>>
SpecC == InitC /\ [][NextC]_vars

NextFit == (\E r \in Runs : FitIteration(r)) /\ UNCHANGED <<vVars, p, zVars, cVars, phi_doc>>
SpecFit == InitFit /\ [][NextFit]_vars


---------------------------------------------------------------------------
(* Properties.                                                             *)

Called == ls.curr # <<>>

Last2(l) == <<l[Len(l) - 1], l[Len(l)]>>

\* C1, as stated: whenever a value recorded in lbs is strictly lower than
\* the value recorded just before it, fit stops right after the iteration
\* that recorded it; for every pair of consecutive recorded values.
C1_StopsOnEveryDecrease ==
    \A r \in Runs : \A j \in 2 .. Len(lbs[r]) :
        lbs[r][j] < lbs[r][j - 1] => (pc[r] # "loop" /\ j = Len(lbs[r]))

\* C1, amended: the same for every pair whose later value is recorded at an
\* iteration past 5, that is from the third recorded value on; the pair
\* recorded by iterations 4 and 5 is not tested.
C1_StopsOnDecreasePastBurnIn ==
    \A r \in Runs : \A j \in 3 .. Len(lbs[r]) :
        lbs[r][j] < lbs[r][j - 1] => (pc[r] # "loop" /\ j = Len(lbs[r]))

\* a run stopped before max_iter by a decrease that is not within tolerance
C1_Witness ==
    \E r \in Runs :
        /\ Len(lbs[r]) >= 3
        /\ Last2(lbs[r])[2] < Last2(lbs[r])[1]
        /\ ~RelConverged(Last2(lbs[r])[2], Last2(lbs[r])[1])
        /\ pc[r] = "done"
        /\ iteration[r] + 1 < max_iter

\* C2, as stated: is_compute_lb never changes which update_C, update_Z and
\* update_V calls fit executes: once both runs have ended, the run without
\* the lower bound has made the same calls as the run with it.
C2_FlagKeepsUpdateCalls ==
    (\A r \in Runs : pc[r] # "loop") => calls[TRUE] = calls[FALSE]

\* C5, as stated: fit returns normally after at most max_iter iterations,
\* for every sequence of lower-bound values, the all-zero one included.
C5_FitReturnsNormally ==
    \A r \in Runs : pc[r] # "error" /\ calls[r] <= max_iter

Distances(curr, grad) ==
    Positive(step_zero(curr, grad)) \cup Positive(step_one(curr, grad))

\* C4, as stated: getstepSTICK returns step 0, without failing, whenever no
\* boundary distance is positive and whenever max_step <= 0.
C4_ZeroStepWithoutFeasibleStep ==
    (Called /\ (Distances(ls.curr, ls.grad) = {} \/ ~RPos(ls.max_step)))
        => (ls.err = "none" /\ ls.step = R0)

\* C9, as stated: max_step is the smallest positive boundary distance over
\* the non-last coordinates with a nonzero gradient, and 1 only when there
\* is none.
C9_MaxStepIsSmallestDistance ==
    Called =>
        ls.max_step = (IF Distances(ls.curr, ls.grad) # {}
                       THEN RMinOf(Distances(ls.curr, ls.grad))
                       ELSE R1)

RECURSIVE Pow2(_)
Pow2(j) == IF j = 0 THEN 1 ELSE 2 * Pow2(j - 1)

\* the surrogate value at the step 0.01 * max_step / 2^j
ValueAtHalving(j) == IF j = 0 THEN ls.f[1] ELSE ls.fb[j]

\* C10: the chosen grid index has the highest surrogate value; with best
\* index 1 the step is 0.01 * max_step / 2^j, where the halvings 1..j each
\* improved strictly and halving j+1 did not: it is positive and its
\* surrogate value is not below the one at index 1; with another best index
\* the grid step is returned as it is.
C10_GridChoiceAndBacktracking ==
    (Called /\ ls.err = "none") =>
        /\ \A ite \in DOMAIN ls.f : ls.f[ite] <= ls.f[ls.b]
        /\ ls.b # 1 => (ls.step = RMul(Grid(ls.b), ls.max_step) /\ ls.evals = 0)
        /\ ls.b = 1 =>
             \E j \in 0 .. MaxBack :
                /\ ls.evals = j + 1
                /\ ls.step = RDiv(RMul(Grid(1), ls.max_step), Rat(Pow2(j), 1))
                /\ RPos(ls.step)
                /\ \A t \in 1 .. j : ValueAtHalving(t) > ValueAtHalving(t - 1)
                /\ ls.fb[j + 1] <= ValueAtHalving(j)
                /\ ls.fold = ValueAtHalving(j)
                /\ ls.fold >= ls.f[1]

\* best index 1, one halving accepted and the next one rejected
C10_Witness ==
    /\ Called
    /\ ls.b = 1
    /\ ls.evals = 2
    /\ ls.fold > ls.f[1]
    /\ ls.step = RDiv(RMul(Grid(1), ls.max_step), Rat(2, 1))

XiBefore(m) == RSum([k \in Topics |-> RDiv(zs.A_old[m][k], zs.B_old[m][k])], Topics)

\* C6, as stated: after every update_Z call every entry of A and of B is
\* strictly positive, for p with entries in [0,1] summing to 1, and B comes
\* from the xi of the (A, B) before the call.
C6_ABStrictlyPositive ==
    zs.calls > 0 =>
        \A m \in Docs : \A k \in Topics :
            /\ RPos(A[m][k])
            /\ RPos(B[m][k])
            /\ B[m][k] = RAdd(R1, RDiv(Nm[m], XiBefore(m)))

\* C6, amended: every entry of B is strictly positive and comes from the xi
\* of the (A, B) before the call; A[m,k] is strictly positive whenever
\* p[k] > 0 or phi_doc[m,k] > 0, and it is beta*p[k] + phi_doc[m,k].
C6_BPositiveAPositiveWherePOrPhi ==
    zs.calls > 0 =>
        \A m \in Docs : \A k \in Topics :
            /\ (RPos(p[k]) \/ RPos(phi_doc[m][k])) => RPos(A[m][k])
            /\ ~RLt(A[m][k], R0)
            /\ RPos(B[m][k])
            /\ B[m][k] = RAdd(R1, RDiv(Nm[m], XiBefore(m)))

\* a second call, on a document with words, where a topic has p[k] = 0 and
\* the document uses it
C6_Witness ==
    /\ zs.calls = 2
    /\ \E m \in Docs : \E k \in Topics :
         p[k] = R0 /\ RPos(phi_doc[m][k]) /\ RPos(Nm[m]) /\ RLt(R1, B[m][k])

TotalMass(g) == RSum([v \in Voca |-> RSum(g[v], Topics)], Voca)

\* C7: after a pass each phi_doc[m,:] sums to Nm[m]; once a pass that is not
\* held out has run, every entry of gamma is >= dir_prior and the total mass
\* of gamma is n_voca * n_topic * dir_prior + sum_m Nm[m]: the floor plus
\* the latest pass once, nothing of earlier passes.
C7_GammaHoldsLatestPassOnce ==
    /\ cs.passes > 0 =>
         \A m \in Docs : RSum(phi_doc[m], Topics) = Nm[m]
    /\ cs.updates > 0 =>
         /\ \A v \in Voca : \A k \in Topics : RLe(dir_prior, gamma[v][k])
         /\ TotalMass(gamma) =
              RAdd(RMul(Rat(n_voca * n_topic, 1), dir_prior), RSum(Nm, Docs))

\* a second pass that is not held out, over a corpus whose documents share
\* a word, with an entry of gamma well above the floor
C7_Witness ==
    /\ cs.updates >= 2
    /\ ~cs.is_heldout
    /\ \E v \in Voca : \A m \in Docs : \E j \in DOMAIN ids_of(corpus, m) : ids_of(corpus, m)[j] = v
    /\ \E v \in Voca : \E k \in Topics : RLt(Rat(3, 2), gamma[v][k])

=============================================================================
